---- MODULE Spec2Model ----
(***************************************************************************)
(* Expression algebra and sub-register normalization of the cwe_checker    *)
(* intermediate representation (intermediate_representation/expression.rs).*)
(*                                                                         *)
(* An Expression is a record with a "kind" field, one kind per variant of  *)
(* the Rust enum.  ByteSize values are natural numbers (bytes).  Values of *)
(* expressions are little-endian sequences of bytes (index 1 = byte 0).    *)
(***************************************************************************)
EXTENDS Integers, Sequences, FiniteSets, TLC

VARIABLES
    expr,       \* SpecSimplify: the expression handed to the simplifier
    env,        \* SpecSimplify: values of the variables and unknowns of expr
    result,     \* SpecSimplify: the expression after the call(s)
    calls,      \* SpecSimplify: number of calls of substitute_trivial_operations so far
    catalog,    \* SpecNormalize: the register map (name -> RegisterProperties)
    block,      \* SpecNormalize: the raw terms of the block, in program order
    cursor,     \* SpecNormalize: index of the next term to normalize
    done,       \* SpecNormalize: the terms normalized so far
    trace,      \* SpecNormalize: per normalized term, what the pass decided
    status,     \* SpecNormalize: "running", "finished" or "panic"
    regs0,      \* SpecNormalize: the register state the block is executed from
    main,       \* SpecGhidra: where the thread calling get_project_from_ghidra is
    ghidra_subprocess, \* SpecGhidra: where the thread spawned for Ghidra is
    child,      \* SpecGhidra: the analyzeHeadless process ("none", "running", "exited")
    output_status, \* SpecGhidra: the exit status of the analyzeHeadless process
    fifo,       \* SpecGhidra: the named pipe (writer end, chunks written, chunks read)
    exit_code   \* SpecGhidra: the exit code of the cwe_checker process, if it has ended

backendVars == <<main, ghidra_subprocess, child, output_status, fifo, exit_code>>

vars ==
    <<expr, env, result, calls, catalog, block, cursor, done, trace, status, regs0,
      main, ghidra_subprocess, child, output_status, fifo, exit_code>>

-----------------------------------------------------------------------------
(* The Expression enum and its operator enums.                             *)

Var(name, size, is_temp) ==
    [kind |-> "Var", name |-> name, size |-> size, is_temp |-> is_temp]

\* A Bitvector constant: its value and its width in bits.
Const(value, width) == [kind |-> "Const", value |-> value, width |-> width]

BinOp(op, lhs, rhs) == [kind |-> "BinOp", op |-> op, lhs |-> lhs, rhs |-> rhs]

UnOp(op, arg) == [kind |-> "UnOp", op |-> op, arg |-> arg]

Cast(op, size, arg) == [kind |-> "Cast", op |-> op, size |-> size, arg |-> arg]

Unknown(description, size) ==
    [kind |-> "Unknown", description |-> description, size |-> size]

Subpiece(low_byte, size, arg) ==
    [kind |-> "Subpiece", low_byte |-> low_byte, size |-> size, arg |-> arg]

BinOpType ==
    {"Piece", "IntEqual", "IntNotEqual", "IntLess", "IntSLess", "IntLessEqual",
     "IntSLessEqual", "IntAdd", "IntSub", "IntCarry", "IntSCarry", "IntSBorrow",
     "IntXOr", "IntAnd", "IntOr", "IntLeft", "IntRight", "IntSRight", "IntMult",
     "IntDiv", "IntRem", "IntSDiv", "IntSRem", "BoolXOr", "BoolAnd", "BoolOr",
     "FloatEqual", "FloatNotEqual", "FloatLess", "FloatLessEqual", "FloatAdd",
     "FloatSub", "FloatMult", "FloatDiv"}

CastOpType == {"IntZExt", "IntSExt", "Int2Float", "Float2Float", "Trunc"}

UnOpType ==
    {"IntNegate", "Int2Comp", "BoolNegate", "FloatNegate", "FloatAbs", "FloatSqrt",
     "FloatCeil", "FloatFloor", "FloatRound", "FloatNaN"}

\* BitSize -> ByteSize and back (the `.into()` conversions).
BitsToBytes(bits) == bits \div 8

BytesToBits(bytes) == bytes * 8

\* Bitvector::zero(width) and Bitvector::one(width).
BitvectorZero(width) == Const(0, width)

BitvectorOne(width) == Const(1, width)

-----------------------------------------------------------------------------
(* Expression::bytesize                                                    *)

BoolSizedBinOps ==
    {"IntEqual", "IntNotEqual", "IntLess", "IntSLess", "IntLessEqual", "IntSLessEqual",
     "IntCarry", "IntSCarry", "IntSBorrow", "BoolXOr", "BoolOr", "BoolAnd",
     "FloatEqual", "FloatNotEqual", "FloatLess", "FloatLessEqual"}

RECURSIVE bytesize(_)
bytesize(e) ==
    CASE e.kind = "Var" -> e.size
      [] e.kind = "Const" -> BitsToBytes(e.width)
      [] e.kind = "BinOp" ->
            IF e.op = "Piece" THEN bytesize(e.lhs) + bytesize(e.rhs)
            ELSE IF e.op \in BoolSizedBinOps THEN 1
            ELSE bytesize(e.lhs)
      [] e.kind = "UnOp" -> IF e.op = "FloatNaN" THEN 1 ELSE bytesize(e.arg)
      [] OTHER -> e.size   \* Cast, Unknown, Subpiece

-----------------------------------------------------------------------------
(* Expression::substitute_trivial_operations, as a function from the       *)
(* expression before the call to the expression after it.                  *)

\* Faulty variants of the match on `op` (used to show what the properties detect).
\* IntLess grouped with the comparisons that hold of equal operands.
SubstituteEqualOperands_LessIsOne(op, lhs, rhs) ==
    IF op \in {"BoolAnd", "BoolOr", "IntAnd", "IntOr"} THEN lhs
    ELSE IF op \in {"BoolXOr", "IntXOr"} THEN BitvectorZero(BytesToBits(bytesize(lhs)))
    ELSE IF op \in {"IntEqual", "IntLessEqual", "IntSLessEqual", "IntLess"}
         THEN BitvectorOne(BytesToBits(1))
    ELSE IF op \in {"IntNotEqual", "IntSLess"}
         THEN BitvectorZero(BytesToBits(1))
    ELSE BinOp(op, lhs, rhs)

\* The zero of `a xor a` built one byte wide instead of as wide as lhs.
SubstituteEqualOperands_XorOneByte(op, lhs, rhs) ==
    IF op \in {"BoolAnd", "BoolOr", "IntAnd", "IntOr"} THEN lhs
    ELSE IF op \in {"BoolXOr", "IntXOr"} THEN BitvectorZero(BytesToBits(1))
    ELSE IF op \in {"IntEqual", "IntLessEqual", "IntSLessEqual"}
         THEN BitvectorOne(BytesToBits(1))
    ELSE IF op \in {"IntNotEqual", "IntLess", "IntSLess"}
         THEN BitvectorZero(BytesToBits(1))
    ELSE BinOp(op, lhs, rhs)

\* IntAdd treated as an identity operation like IntOr.
SubstituteEqualOperands_AddIsIdentity(op, lhs, rhs) ==
    IF op \in {"BoolAnd", "BoolOr", "IntAnd", "IntOr", "IntAdd"} THEN lhs
    ELSE IF op \in {"BoolXOr", "IntXOr"} THEN BitvectorZero(BytesToBits(bytesize(lhs)))
    ELSE IF op \in {"IntEqual", "IntLessEqual", "IntSLessEqual"}
         THEN BitvectorOne(BytesToBits(1))
    ELSE IF op \in {"IntNotEqual", "IntLess", "IntSLess"}
         THEN BitvectorZero(BytesToBits(1))
    ELSE BinOp(op, lhs, rhs)

\* The match on `op` taken when the simplified lhs and rhs are equal.
SubstituteEqualOperands(op, lhs, rhs) ==
    IF op \in {"BoolAnd", "BoolOr", "IntAnd", "IntOr"} THEN lhs
    ELSE IF op \in {"BoolXOr", "IntXOr"} THEN BitvectorZero(BytesToBits(bytesize(lhs)))
    ELSE IF op \in {"IntEqual", "IntLessEqual", "IntSLessEqual"}
         THEN BitvectorOne(BytesToBits(1))
    ELSE IF op \in {"IntNotEqual", "IntLess", "IntSLess"}
         THEN BitvectorZero(BytesToBits(1))
    ELSE BinOp(op, lhs, rhs)

\* Faulty variant: the low_byte test forgotten.
SubstituteSubpiece_AnyLowByte(low_byte, size, arg) ==
    IF size = bytesize(arg) THEN arg ELSE Subpiece(low_byte, size, arg)

\* The Subpiece arm, given the already simplified argument.
SubstituteSubpiece(low_byte, size, arg) ==
    IF low_byte = 0 /\ size = bytesize(arg) THEN arg ELSE Subpiece(low_byte, size, arg)

\* The Cast arm, given the already simplified argument.
SubstituteCast(op, size, arg) ==
    IF (op = "IntSExt" \/ op = "IntZExt") /\ size = bytesize(arg)
    THEN arg
    ELSE Cast(op, size, arg)

\* A variant that looks for identical operands before simplifying them (a
\* pre-order pass): the operands of the original node are the ones compared.
RECURSIVE substitute_trivial_operations_CompareRaw(_)
substitute_trivial_operations_CompareRaw(e) ==
    CASE e.kind \in {"Var", "Const", "Unknown"} -> e
      [] e.kind = "Subpiece" ->
            SubstituteSubpiece(e.low_byte, e.size,
                               substitute_trivial_operations_CompareRaw(e.arg))
      [] e.kind = "Cast" ->
            SubstituteCast(e.op, e.size, substitute_trivial_operations_CompareRaw(e.arg))
      [] e.kind = "UnOp" -> UnOp(e.op, substitute_trivial_operations_CompareRaw(e.arg))
      [] e.kind = "BinOp" ->
            LET lhs == substitute_trivial_operations_CompareRaw(e.lhs)
                rhs == substitute_trivial_operations_CompareRaw(e.rhs)
            IN  IF e.lhs = e.rhs
                THEN SubstituteEqualOperands(e.op, lhs, rhs)
                ELSE BinOp(e.op, lhs, rhs)

RECURSIVE substitute_trivial_operations(_)
substitute_trivial_operations(e) ==
    CASE e.kind \in {"Var", "Const", "Unknown"} -> e
      [] e.kind = "Subpiece" ->
            SubstituteSubpiece(e.low_byte, e.size, substitute_trivial_operations(e.arg))
      [] e.kind = "Cast" ->
            SubstituteCast(e.op, e.size, substitute_trivial_operations(e.arg))
      [] e.kind = "UnOp" -> UnOp(e.op, substitute_trivial_operations(e.arg))
      [] e.kind = "BinOp" ->
            LET lhs == substitute_trivial_operations(e.lhs)
                rhs == substitute_trivial_operations(e.rhs)
            IN  IF lhs = rhs
                THEN SubstituteEqualOperands(e.op, lhs, rhs)
                ELSE BinOp(e.op, lhs, rhs)

-----------------------------------------------------------------------------
(* Values.  The value of an expression of size n is a sequence of n bytes, *)
(* least significant byte first, each byte in 0..255.  The operations are  *)
(* those of the P-Code reference the Expression documentation points to.   *)

RECURSIVE BitwiseByte(_, _, _, _)
BitwiseByte(op, x, y, n) ==
    IF n = 0 THEN 0
    ELSE LET a == x % 2
             b == y % 2
             bit == CASE op = "xor" -> (a + b) % 2
                      [] op = "and" -> a * b
                      [] op = "or" -> IF a + b > 0 THEN 1 ELSE 0
         IN  bit + 2 * BitwiseByte(op, x \div 2, y \div 2, n - 1)

Bitwise(op, a, b) == [i \in 1 .. Len(a) |-> BitwiseByte(op, a[i], b[i], 8)]

ZeroBytes(n) == [i \in 1 .. n |-> 0]

\* The value n written on `size` bytes.
RECURSIVE ToBytes(_, _)
ToBytes(n, size) ==
    IF size = 0 THEN <<>> ELSE <<n % 256>> \o ToBytes(n \div 256, size - 1)

BoolBytes(b) == IF b THEN <<1>> ELSE <<0>>

\* a + b + carry on Len(a) bytes, and the carry out of it.
RECURSIVE AddBytes(_, _, _)
AddBytes(a, b, carry) ==
    IF a = <<>> THEN <<>>
    ELSE LET s == a[1] + b[1] + carry
         IN  <<s % 256>> \o AddBytes(Tail(a), Tail(b), s \div 256)

RECURSIVE CarryOut(_, _, _)
CarryOut(a, b, carry) ==
    IF a = <<>> THEN carry
    ELSE CarryOut(Tail(a), Tail(b), (a[1] + b[1] + carry) \div 256)

Complement(a) == [i \in 1 .. Len(a) |-> 255 - a[i]]

SubBytes(a, b) == AddBytes(a, Complement(b), 1)

\* Unsigned a < b, compared from the most significant byte down.
RECURSIVE ULess(_, _)
ULess(a, b) ==
    IF a = <<>> THEN FALSE
    ELSE LET n == Len(a)
         IN  IF a[n] # b[n] THEN a[n] < b[n]
             ELSE ULess(SubSeq(a, 1, n - 1), SubSeq(b, 1, n - 1))

\* Two's complement order: flip the sign bit, then compare unsigned.
FlipSign(a) == [i \in 1 .. Len(a) |-> IF i = Len(a) THEN (a[i] + 128) % 256 ELSE a[i]]

SLess(a, b) == ULess(FlipSign(a), FlipSign(b))

IsNegative(a) == a # <<>> /\ a[Len(a)] >= 128

\* The binary, unary and cast operators Eval interprets.
EvalBinOps ==
    {"Piece", "IntEqual", "IntNotEqual", "IntLess", "IntSLess", "IntLessEqual",
     "IntSLessEqual", "IntAdd", "IntSub", "IntCarry", "IntXOr", "IntAnd", "IntOr",
     "BoolXOr", "BoolAnd", "BoolOr"}

EvalUnOps == {"IntNegate", "Int2Comp", "BoolNegate"}

EvalCastOps == {"IntZExt", "IntSExt"}

EvalBinOp(op, a, b) ==
    CASE op = "Piece" -> b \o a
      [] op = "IntEqual" -> BoolBytes(a = b)
      [] op = "IntNotEqual" -> BoolBytes(a # b)
      [] op = "IntLess" -> BoolBytes(ULess(a, b))
      [] op = "IntSLess" -> BoolBytes(SLess(a, b))
      [] op = "IntLessEqual" -> BoolBytes(~ULess(b, a))
      [] op = "IntSLessEqual" -> BoolBytes(~SLess(b, a))
      [] op = "IntAdd" -> AddBytes(a, b, 0)
      [] op = "IntSub" -> SubBytes(a, b)
      [] op = "IntCarry" -> BoolBytes(CarryOut(a, b, 0) = 1)
      [] op \in {"IntXOr", "BoolXOr"} -> Bitwise("xor", a, b)
      [] op \in {"IntAnd", "BoolAnd"} -> Bitwise("and", a, b)
      [] op \in {"IntOr", "BoolOr"} -> Bitwise("or", a, b)

EvalUnOp(op, a) ==
    CASE op = "IntNegate" -> Complement(a)
      [] op = "Int2Comp" -> AddBytes(Complement(a), ZeroBytes(Len(a)), 1)
      [] op = "BoolNegate" -> BoolBytes(a = <<0>>)

EvalCast(op, size, a) ==
    LET fill == IF op = "IntSExt" /\ IsNegative(a) THEN 255 ELSE 0
    IN  [i \in 1 .. size |-> IF i <= Len(a) THEN a[i] ELSE fill]

\* Reading a register: a sub-register is the bytes lsb .. lsb+size of its base
\* register; any other name (a base register, a temporary) is read whole.
ReadVar(st, cat, v) ==
    IF v.name \in DOMAIN cat
    THEN SubSeq(st[cat[v.name].base_register], cat[v.name].lsb + 1,
                cat[v.name].lsb + v.size)
    ELSE st[v.name]

\* Writing a register: a write to a sub-register changes only its bytes of the
\* base register.
WriteVar(st, cat, v, val) ==
    IF v.name \in DOMAIN cat
    THEN LET r == cat[v.name]
             old == st[r.base_register]
         IN  [st EXCEPT ![r.base_register] =
                 [i \in 1 .. Len(old) |->
                     IF i > r.lsb /\ i <= r.lsb + Len(val) THEN val[i - r.lsb]
                     ELSE old[i]]]
    ELSE [st EXCEPT ![v.name] = val]

RECURSIVE Eval(_, _, _)
Eval(e, st, cat) ==
    CASE e.kind = "Var" -> ReadVar(st, cat, e)
      [] e.kind = "Const" -> ToBytes(e.value, BitsToBytes(e.width))
      [] e.kind = "Unknown" -> st[e.description]
      [] e.kind = "BinOp" -> EvalBinOp(e.op, Eval(e.lhs, st, cat), Eval(e.rhs, st, cat))
      [] e.kind = "UnOp" -> EvalUnOp(e.op, Eval(e.arg, st, cat))
      [] e.kind = "Cast" -> EvalCast(e.op, e.size, Eval(e.arg, st, cat))
      [] e.kind = "Subpiece" ->
            SubSeq(Eval(e.arg, st, cat), e.low_byte + 1, e.low_byte + e.size)

\* Well-typed expressions: the size restrictions the operators impose on their
\* inputs, restricted to the operators Eval interprets.
RECURSIVE WellTyped(_)
WellTyped(e) ==
    CASE e.kind = "Var" -> e.size >= 1
      [] e.kind = "Const" -> e.width >= 8 /\ e.width % 8 = 0
      [] e.kind = "Unknown" -> e.size >= 1
      [] e.kind = "BinOp" ->
            /\ WellTyped(e.lhs) /\ WellTyped(e.rhs)
            /\ e.op \in EvalBinOps
            /\ IF e.op = "Piece" THEN TRUE
               ELSE IF e.op \in {"BoolXOr", "BoolAnd", "BoolOr"}
                    THEN bytesize(e.lhs) = 1 /\ bytesize(e.rhs) = 1
               ELSE bytesize(e.lhs) = bytesize(e.rhs)
      [] e.kind = "UnOp" ->
            /\ WellTyped(e.arg)
            /\ e.op \in EvalUnOps
            /\ (e.op = "BoolNegate" => bytesize(e.arg) = 1)
      [] e.kind = "Cast" ->
            /\ WellTyped(e.arg)
            /\ e.op \in EvalCastOps
            /\ e.size >= bytesize(e.arg)
      [] e.kind = "Subpiece" ->
            /\ WellTyped(e.arg)
            /\ e.size >= 1
            /\ e.low_byte + e.size <= bytesize(e.arg)

-----------------------------------------------------------------------------
(* The register catalog of the scenarios: AL and AH are the bytes 0 and 1, *)
(* AX the low half of the 4-byte EAX; BL is byte 0 of the 4-byte EBX.      *)

RegisterProperties(register, base_register, size, lsb) ==
    [register |-> register, base_register |-> base_register, size |-> size, lsb |-> lsb]

Catalog(regs) == [n \in {r.register : r \in regs} |->
                    CHOOSE r \in regs : r.register = n]

X86Registers ==
    {RegisterProperties("EAX", "EAX", 4, 0), RegisterProperties("AX", "EAX", 2, 0),
     RegisterProperties("AL", "EAX", 1, 0), RegisterProperties("AH", "EAX", 1, 1),
     RegisterProperties("EBX", "EBX", 4, 0), RegisterProperties("BL", "EBX", 1, 0)}

X86Catalog == Catalog(X86Registers)

-----------------------------------------------------------------------------
(* Sub-register normalization.  Option<T> is a record with a `some` flag;  *)
(* a panic (a failed unwrap, an overflowing ByteSize subtraction) is the   *)
(* value Panic, which every caller passes on: the process aborts.          *)

None == [some |-> FALSE]

Some(x) == [some |-> TRUE, value |-> x]

Variable(name, size, is_temp) == [name |-> name, size |-> size, is_temp |-> is_temp]

Panic == [kind |-> "Panic"]

\* Def::Assign { var, value }, and a Def of another kind, whose expression is
\* normalized without an output variable.
Assign(var, value) == [def |-> "Assign", var |-> var, value |-> value]

Store(value) == [def |-> "Store", value |-> value]

\* Faulty variant: the sign extension matched instead of the zero extension.
check_for_zero_extension_SignExtension(e) ==
    IF e.kind = "Cast"
    THEN IF e.op = "IntSExt" THEN e.arg.kind = "Var" ELSE FALSE
    ELSE FALSE

\* Expression::check_for_zero_extension
check_for_zero_extension(e) ==
    IF e.kind = "Cast"
    THEN IF e.op = "IntZExt" THEN e.arg.kind = "Var" ELSE FALSE
    ELSE FALSE

\* Faulty variant: low_byte and size of the created Subpiece exchanged.
create_subpiece_from_sub_register_SizeAsLowByte(base, size, lsb, register_map) ==
    IF base \in DOMAIN register_map
    THEN Subpiece(size, lsb, Var(base, register_map[base].size, FALSE))
    ELSE Panic

\* Expression::create_subpiece_from_sub_register: the expression that replaces
\* `self`; register_map.get(&base).unwrap() panics when base is not a key.
create_subpiece_from_sub_register(base, size, lsb, register_map) ==
    IF base \in DOMAIN register_map
    THEN Subpiece(lsb, size, Var(base, register_map[base].size, FALSE))
    ELSE Panic

\* Faulty variant: the Cast arm missing, so the argument of a cast is not visited.
RECURSIVE check_for_sub_register_SkipCast(_, _)
check_for_sub_register_SkipCast(e, register_map) ==
    CASE e.kind = "BinOp" ->
            LET lhs == check_for_sub_register_SkipCast(e.lhs, register_map)
                rhs == check_for_sub_register_SkipCast(e.rhs, register_map)
            IN  IF lhs = Panic \/ rhs = Panic THEN Panic ELSE BinOp(e.op, lhs, rhs)
      [] e.kind \in {"UnOp", "Subpiece"} ->
            LET arg == check_for_sub_register_SkipCast(e.arg, register_map)
            IN  IF arg = Panic THEN Panic ELSE [e EXCEPT !.arg = arg]
      [] e.kind = "Var" ->
            IF e.name \in DOMAIN register_map
            THEN LET register == register_map[e.name]
                 IN  IF e.name # register.base_register
                     THEN create_subpiece_from_sub_register(
                              register.base_register, register.size, register.lsb,
                              register_map)
                     ELSE e
            ELSE e
      [] OTHER -> e

\* Expression::check_for_sub_register
RECURSIVE check_for_sub_register(_, _)
check_for_sub_register(e, register_map) ==
    CASE e.kind = "BinOp" ->
            LET lhs == check_for_sub_register(e.lhs, register_map)
                rhs == check_for_sub_register(e.rhs, register_map)
            IN  IF lhs = Panic \/ rhs = Panic THEN Panic ELSE BinOp(e.op, lhs, rhs)
      [] e.kind \in {"UnOp", "Cast", "Subpiece"} ->
            LET arg == check_for_sub_register(e.arg, register_map)
            IN  IF arg = Panic THEN Panic ELSE [e EXCEPT !.arg = arg]
      [] e.kind = "Var" ->
            IF e.name \in DOMAIN register_map
            THEN LET register == register_map[e.name]
                 IN  IF e.name # register.base_register
                     THEN create_subpiece_from_sub_register(
                              register.base_register, register.size, register.lsb,
                              register_map)
                     ELSE e
            ELSE e
      [] OTHER -> e

\* ByteSize subtraction a - b on unsigned integers: it underflows when a < b
\* ("attempt to subtract with overflow"), and the call panics.
ByteSizeUnderflows(a, b) == a < b

ByteSizeSub(a, b) == a - b

\* Faulty variant: the high segment of the three-segment form sized without the lsb.
piece_two_expressions_together_HighSize(self, output_base_register, sub_register) ==
    LET base_size == output_base_register.size
        base_subpiece == Var(output_base_register.register, base_size, FALSE)
        sub_size == sub_register.size
        sub_lsb == sub_register.lsb
    IN  IF sub_register.lsb > 0
        THEN BinOp("Piece",
                   BinOp("Piece",
                         Subpiece(sub_lsb + sub_size, ByteSizeSub(base_size, sub_size),
                                  base_subpiece),
                         self),
                   Subpiece(0, sub_lsb, base_subpiece))
        ELSE BinOp("Piece",
                   Subpiece(sub_size, ByteSizeSub(base_size, sub_size), base_subpiece),
                   self)

\* Faulty variant: the new value concatenated above the untouched high bytes.
piece_two_expressions_together_Swapped(self, output_base_register, sub_register) ==
    LET base_size == output_base_register.size
        base_subpiece == Var(output_base_register.register, base_size, FALSE)
        sub_size == sub_register.size
        sub_lsb == sub_register.lsb
    IN  IF sub_register.lsb > 0
        THEN BinOp("Piece",
                   BinOp("Piece",
                         self,
                         Subpiece(sub_lsb + sub_size,
                                  ByteSizeSub(base_size, sub_lsb + sub_size),
                                  base_subpiece)),
                   Subpiece(0, sub_lsb, base_subpiece))
        ELSE BinOp("Piece",
                   self,
                   Subpiece(sub_size, ByteSizeSub(base_size, sub_size), base_subpiece))

\* Expression::piece_two_expressions_together
piece_two_expressions_together(self, output_base_register, sub_register) ==
    LET base_size == output_base_register.size
        base_name == output_base_register.register
        sub_size == sub_register.size
        sub_lsb == sub_register.lsb
        base_subpiece == Var(base_name, base_size, FALSE)
    IN  IF sub_register.lsb > 0
        THEN IF ByteSizeUnderflows(base_size, sub_lsb + sub_size) THEN Panic
             ELSE BinOp("Piece",
                        BinOp("Piece",
                              Subpiece(sub_lsb + sub_size,
                                       ByteSizeSub(base_size, sub_lsb + sub_size),
                                       base_subpiece),
                              self),
                        Subpiece(0, sub_lsb, base_subpiece))
        ELSE IF ByteSizeUnderflows(base_size, sub_size) THEN Panic
             ELSE BinOp("Piece",
                        Subpiece(sub_size, ByteSizeSub(base_size, sub_size), base_subpiece),
                        self)

\* Expression::piece_zero_extend_or_none
piece_zero_extend_or_none(self, zero_extend, output_base_register, output_size, sub_register) ==
    IF zero_extend
    THEN Cast("IntZExt", output_size.value, self)
    ELSE IF output_base_register.some
         THEN piece_two_expressions_together(self, output_base_register.value,
                                             sub_register.value)
         ELSE self

\* The `if let Some(output_value) = output` block of
\* process_sub_registers_if_necessary: the rewritten output and the locals it
\* sets, or Panic when output_base_register.unwrap() fails.
ProcessOutput(output, register_map, peeked) ==
    LET untouched == [output |-> output, output_base_size |-> None,
                      peek_is_zero_extension |-> FALSE,
                      output_base_register |-> None, output_sub_register |-> None]
    IN  IF ~output.some THEN untouched
        ELSE IF output.value.name \notin DOMAIN register_map THEN untouched
        ELSE LET register == register_map[output.value.name]
             IN  IF register.register = register.base_register THEN untouched
                 ELSE IF register.base_register \notin DOMAIN register_map THEN Panic
                 ELSE LET base == register_map[register.base_register]
                          output_value == [output.value EXCEPT
                                              !.name = register.base_register,
                                              !.size = base.size]
                          zext == IF peeked.some
                                  THEN IF peeked.value.def = "Assign"
                                       THEN IF output_value.name = peeked.value.var.name
                                            THEN check_for_zero_extension(peeked.value.value)
                                            ELSE FALSE
                                       ELSE FALSE
                                  ELSE FALSE
                      IN  [output |-> Some(output_value),
                           output_base_size |-> Some(output_value.size),
                           peek_is_zero_extension |-> zext,
                           output_base_register |-> Some(base),
                           output_sub_register |-> Some(register)]

\* Expression::process_sub_registers_if_necessary: the expression and the output
\* after the call, with the locals the call computed; Panic when the call panics.
process_sub_registers_if_necessary(self, output, register_map, peeked) ==
    LET out == ProcessOutput(output, register_map, peeked)
    IN  IF out = Panic THEN Panic
        ELSE LET leaves == check_for_sub_register(self, register_map)
             IN  IF leaves = Panic THEN Panic
                 ELSE LET pieced == piece_zero_extend_or_none(
                                        leaves, out.peek_is_zero_extension,
                                        out.output_base_register, out.output_base_size,
                                        out.output_sub_register)
                      IN  IF pieced = Panic THEN Panic
                          ELSE [value |-> pieced, output |-> out.output,
                                peek_is_zero_extension |-> out.peek_is_zero_extension,
                                output_sub_register |-> out.output_sub_register,
                                output_base_register |-> out.output_base_register]

-----------------------------------------------------------------------------
(* SpecSimplify: substitute_trivial_operations called on an expression,    *)
(* and called again on its own result.                                     *)

\* Largest value of the 1-byte constant leaves.
MaxConst == 0

\* Number of calls of the simplifier on one expression.
MaxCalls == 2

TempNames == {"t1", "t2"}

SimplifyLeaves ==
    {Var(t, 1, TRUE) : t \in TempNames}
        \cup {Var("EAX", 4, FALSE), Unknown("u", 1)}
        \cup {Const(v, 8) : v \in 0 .. MaxConst}

\* The operand expressions: the leaves and one operator over leaves.
CoreBinOps == {"IntXOr", "IntAnd"}

SimplifyOperands ==
    SimplifyLeaves
        \cup {BinOp(op, l, r) : op \in CoreBinOps, l \in SimplifyLeaves, r \in SimplifyLeaves}
        \cup {Subpiece(0, 1, l) : l \in SimplifyLeaves}
        \cup {Cast("IntZExt", 4, l) : l \in SimplifyLeaves}

\* The (low_byte, size) pairs and the sizes of the Subpiece and Cast roots.
RootSizes == {1, 2, 4}

RootLowBytes == {0, 1}

SimplifyInputs ==
    SimplifyOperands
        \cup {BinOp(op, l, r) : op \in BinOpType, l \in SimplifyOperands, r \in SimplifyOperands}
        \cup {UnOp(op, a) : op \in UnOpType, a \in SimplifyOperands}
        \cup {Cast(op, size, a) : op \in CastOpType, size \in RootSizes, a \in SimplifyOperands}
        \cup {Subpiece(low, size, a) :
                low \in RootLowBytes, size \in RootSizes, a \in SimplifyOperands}

\* Values of the variables and of the unknown the expressions are built from.
Envs ==
    {[t1 |-> <<1>>, t2 |-> <<128>>, u |-> <<255>>, EAX |-> <<17, 34, 51, 132>>, EBX |-> <<85, 102, 119, 136>>],
     [t1 |-> <<0>>, t2 |-> <<0>>, u |-> <<0>>, EAX |-> <<0, 0, 0, 0>>, EBX |-> <<0, 0, 0, 0>>],
     [t1 |-> <<200>>, t2 |-> <<7>>, u |-> <<1>>, EAX |-> <<255, 255, 0, 1>>, EBX |-> <<1, 0, 255, 127>>]}

NoEnv == [t1 |-> <<>>]

\* The Ghidra backend is not in use.
BackendIdle ==
    /\ main = "idle"
    /\ ghidra_subprocess = "unspawned"
    /\ child = "none"
    /\ output_status = "none"
    /\ fifo = [writer |-> "unopened", written |-> 0, read |-> 0]
    /\ exit_code = None

NormalizeIdle ==
    /\ catalog = X86Catalog
    /\ block = <<>>
    /\ cursor = 1
    /\ done = <<>>
    /\ trace = <<>>
    /\ status = "idle"
    /\ regs0 = NoEnv

InitSimplify ==
    /\ expr \in SimplifyInputs
    /\ env \in (IF WellTyped(expr) THEN Envs ELSE {NoEnv})
    /\ result = expr
    /\ calls = 0
    /\ NormalizeIdle
    /\ BackendIdle

\* One call of substitute_trivial_operations on the current expression.
Simplify ==
    /\ calls < MaxCalls
    /\ result' = substitute_trivial_operations(result)
    /\ calls' = calls + 1
    /\ UNCHANGED <<expr, env, catalog, block, cursor, done, trace, status, regs0>>
    /\ UNCHANGED backendVars

NextSimplify == Simplify

SpecSimplify == InitSimplify /\ [][NextSimplify]_vars

-----------------------------------------------------------------------------
(* SpecNormalize: the forward scan of one block, each term normalized with *)
(* the following raw term as lookahead, and the execution of blocks.       *)

\* Largest number of terms of a block.
MaxBlockLen == 2

\* A catalog lacking the entry of the base register EAX.
IncompleteCatalog == Catalog({r \in X86Registers : r.register # "EAX"})

\* A catalog whose AL and AH name the sub-register AX as their base.
ChainedCatalog ==
    Catalog({r \in X86Registers : r.register \notin {"AL", "AH"}}
            \cup {RegisterProperties("AL", "AX", 1, 0), RegisterProperties("AH", "AX", 1, 1)})

Catalogs == {X86Catalog, IncompleteCatalog, ChainedCatalog}

RegVar(name) == Var(name, X86Catalog[name].size, FALSE)

\* The raw value expressions of the terms, by size.
RawValues1 ==
    {Const(5, 8), RegVar("BL"), Unknown("u", 1),
     BinOp("IntAdd", RegVar("AL"), Var("t1", 1, TRUE)),
     UnOp("IntNegate", RegVar("AH")), Subpiece(1, 1, RegVar("AX"))}

RawValues2 == {Const(9, 16), Cast("IntZExt", 2, RegVar("AL"))}

RawValues4 ==
    {RegVar("EBX"),
     Cast("IntZExt", 4, RegVar("AL")), Cast("IntZExt", 4, RegVar("AH")),
     Cast("IntZExt", 4, RegVar("BL")), Cast("IntZExt", 4, RegVar("AX")),
     Cast("IntSExt", 4, RegVar("AL")),
     Cast("IntZExt", 4, BinOp("IntAdd", RegVar("AL"), RegVar("AH")))}

\* The output variables of the terms: registers of the catalog and a temporary.
Outputs ==
    {Variable(n, X86Catalog[n].size, FALSE) : n \in {"AL", "AH", "AX", "EAX"}}
        \cup {Variable("t1", 1, TRUE)}

\* The raw terms: assignments of a value of the output's size, and a store.
RawTerms ==
    {Assign(v, e) : v \in {o \in Outputs : o.size = 1}, e \in RawValues1}
        \cup {Assign(v, e) : v \in {o \in Outputs : o.size = 2}, e \in RawValues2}
        \cup {Assign(v, e) : v \in {o \in Outputs : o.size = 4}, e \in RawValues4}
        \cup {Store(RegVar("AL"))}

Blocks == UNION {[1 .. n -> RawTerms] : n \in 1 .. MaxBlockLen}

\* A catalog with a sub-register that ends at the top of its base register:
\* the 16-byte q0 with its low half d0 and its high half d1.
ArmRegisters ==
    {RegisterProperties("q0", "q0", 16, 0),
     RegisterProperties("d0", "q0", 8, 0),
     RegisterProperties("d1", "q0", 8, 8)}

ArmCatalog == Catalog(ArmRegisters)

\* The raw terms of the blocks normalized with ArmCatalog.
ArmTerms ==
    {Assign(Variable("d1", 8, FALSE), Const(9, 64)),
     Assign(Variable("d1", 8, FALSE), Var("d0", 8, FALSE)),
     Assign(Variable("d0", 8, FALSE), Var("d1", 8, FALSE)),
     Assign(Variable("q0", 16, FALSE), Cast("IntZExt", 16, Var("d1", 8, FALSE)))}

ArmBlocks == UNION {[1 .. n -> ArmTerms] : n \in 1 .. MaxBlockLen}

\* The register states blocks are executed from.
RegStates == {e \in Envs : e.EAX # <<0, 0, 0, 0>>}

SimplifyIdle ==
    /\ expr = Const(0, 8)
    /\ env = NoEnv
    /\ result = Const(0, 8)
    /\ calls = 0

InitNormalize ==
    /\ catalog \in Catalogs \cup {ArmCatalog}
    /\ block \in (IF catalog = ArmCatalog THEN ArmBlocks ELSE Blocks)
    /\ cursor = 1
    /\ done = <<>>
    /\ trace = <<>>
    /\ status = "running"
    /\ regs0 \in (IF catalog = X86Catalog THEN RegStates ELSE {NoEnv})
    /\ SimplifyIdle
    /\ BackendIdle

\* The lookahead of the term at index i: the next raw term of the block, if any.
Peeked(i) == IF i < Len(block) THEN Some(block[i + 1]) ELSE None

\* The call of process_sub_registers_if_necessary the scan makes for term t.
ProcessTerm(t, peeked) ==
    process_sub_registers_if_necessary(
        t.value, IF t.def = "Assign" THEN Some(t.var) ELSE None, catalog, peeked)

\* The term after a call that returned r.
Rebuilt(t, r) == IF t.def = "Assign" THEN Assign(r.output.value, r.value) ELSE Store(r.value)

\* The scan normalizes the term under the cursor and moves on.
NormalizeTerm ==
    /\ status = "running"
    /\ LET r == ProcessTerm(block[cursor], Peeked(cursor))
       IN  /\ r # Panic
           /\ done' = Append(done, Rebuilt(block[cursor], r))
           /\ trace' = Append(trace, r)
    /\ cursor' = cursor + 1
    /\ status' = IF cursor = Len(block) THEN "finished" ELSE "running"
    /\ UNCHANGED <<expr, env, result, calls, catalog, block, regs0>>
    /\ UNCHANGED backendVars

\* The call for the term under the cursor panics: the process aborts.
NormalizePanic ==
    /\ status = "running"
    /\ ProcessTerm(block[cursor], Peeked(cursor)) = Panic
    /\ status' = "panic"
    /\ UNCHANGED <<expr, env, result, calls, catalog, block, cursor, done, trace, regs0>>
    /\ UNCHANGED backendVars

NextNormalize == NormalizeTerm \/ NormalizePanic

SpecNormalize == InitNormalize /\ [][NextNormalize]_vars

\* Executing the terms of a block in order from the register state st.
RECURSIVE ExecBlock(_, _, _)
ExecBlock(terms, st, cat) ==
    IF terms = <<>> THEN st
    ELSE LET t == Head(terms)
         IN  ExecBlock(Tail(terms),
                       IF t.def = "Assign"
                       THEN WriteVar(st, cat, t.var, Eval(t.value, st, cat))
                       ELSE st,
                       cat)

-----------------------------------------------------------------------------
(* Properties of the simplifier.                                           *)

\* The size restrictions of the operators, for every operator of the enums.
RECURSIVE WellSized(_)
WellSized(e) ==
    CASE e.kind = "Var" -> e.size >= 1
      [] e.kind = "Const" -> e.width >= 8 /\ e.width % 8 = 0
      [] e.kind = "Unknown" -> e.size >= 1
      [] e.kind = "BinOp" ->
            /\ WellSized(e.lhs) /\ WellSized(e.rhs)
            /\ IF e.op \in {"Piece", "IntLeft", "IntRight", "IntSRight"} THEN TRUE
               ELSE IF e.op \in {"BoolXOr", "BoolAnd", "BoolOr"}
                    THEN bytesize(e.lhs) = 1 /\ bytesize(e.rhs) = 1
               ELSE bytesize(e.lhs) = bytesize(e.rhs)
      [] e.kind = "UnOp" -> WellSized(e.arg) /\ (e.op = "BoolNegate" => bytesize(e.arg) = 1)
      [] e.kind = "Cast" ->
            WellSized(e.arg) /\ (e.op \in {"IntZExt", "IntSExt"} => e.size >= bytesize(e.arg))
      [] e.kind = "Subpiece" ->
            WellSized(e.arg) /\ e.size >= 1 /\ e.low_byte + e.size <= bytesize(e.arg)

\* C3: for every well-typed expression and every assignment of values to its
\* variables, the value of the expression after substitute_trivial_operations
\* equals its value before the call.
C3_ValuePreserved ==
    (calls >= 1 /\ WellTyped(expr)) =>
        Eval(result, env, X86Catalog) = Eval(expr, env, X86Catalog)

\* A well-typed comparison of two different operand expressions that become equal
\* only once simplified, rewritten to a constant, in an environment of non-zero values.
C3_Witness ==
    /\ calls = 1
    /\ WellTyped(expr)
    /\ expr.kind = "BinOp"
    /\ expr.op = "IntLess"
    /\ expr.lhs # expr.rhs
    /\ result = Const(0, 8)
    /\ env.EAX = <<17, 34, 51, 132>>

\* C4: for every well-typed expression (equal-size operands on arithmetic and
\* bitwise operators, 1-byte operands on boolean operators) the bytesize after
\* substitute_trivial_operations equals the bytesize before the call.
C4_BytesizePreserved ==
    (calls >= 1 /\ WellSized(expr)) => bytesize(result) = bytesize(expr)

\* `EAX xor EAX`-like input: a 4-byte xor of equal operands replaced by a constant.
C4_Witness ==
    /\ calls = 1
    /\ WellSized(expr)
    /\ expr.kind = "BinOp"
    /\ expr.op = "IntXOr"
    /\ bytesize(expr) = 4
    /\ result.kind = "Const"

\* The table of the specification for a BinOp with structurally identical operands.
IdenticalOperandsRule(op, lhs, rhs) ==
    CASE op \in {"BoolAnd", "BoolOr", "IntAnd", "IntOr"} -> lhs
      [] op \in {"BoolXOr", "IntXOr"} -> Const(0, 8 * bytesize(lhs))
      [] op \in {"IntEqual", "IntLessEqual", "IntSLessEqual"} -> Const(1, 8)
      [] op \in {"IntNotEqual", "IntLess", "IntSLess"} -> Const(0, 8)
      [] OTHER -> BinOp(op, lhs, rhs)

\* C8: a BinOp whose simplified operands are structurally identical becomes lhs
\* (BoolAnd, BoolOr, IntAnd, IntOr), the zero of lhs's width (BoolXOr, IntXOr),
\* the 1-byte one (IntEqual, IntLessEqual, IntSLessEqual) or the 1-byte zero
\* (IntNotEqual, IntLess, IntSLess); with any other operator, or with different
\* operands, it keeps its operator and both (simplified) operands.
C8_IdenticalOperands ==
    (calls = 1 /\ expr.kind = "BinOp") =>
        LET lhs == substitute_trivial_operations(expr.lhs)
            rhs == substitute_trivial_operations(expr.rhs)
        IN  IF lhs = rhs
            THEN result = IdenticalOperandsRule(expr.op, lhs, rhs)
            ELSE result = BinOp(expr.op, lhs, rhs)

\* IntXOr of two occurrences of the 4-byte EAX became the 32-bit zero.
C8_Witness ==
    /\ calls = 1
    /\ expr = BinOp("IntXOr", Var("EAX", 4, FALSE), Var("EAX", 4, FALSE))
    /\ result = Const(0, 32)

\* C9: a Subpiece is replaced by its simplified argument exactly when low_byte = 0
\* and size = bytesize(arg); a Cast exactly when its op is IntSExt or IntZExt and
\* size = bytesize(arg); every other Subpiece or Cast keeps its node with only the
\* argument simplified.  (For a well-sized argument the bytesize of the argument
\* is the same before and after its simplification.)
C9_NoOpExtractionAndExtension ==
    (calls = 1 /\ expr.kind \in {"Subpiece", "Cast"}) =>
        LET arg == substitute_trivial_operations(expr.arg)
            noop == IF expr.kind = "Subpiece"
                    THEN expr.low_byte = 0 /\ expr.size = bytesize(arg)
                    ELSE expr.op \in {"IntSExt", "IntZExt"} /\ expr.size = bytesize(arg)
            kept == IF expr.kind = "Subpiece"
                    THEN Subpiece(expr.low_byte, expr.size, arg)
                    ELSE Cast(expr.op, expr.size, arg)
        IN  /\ result = (IF noop THEN arg ELSE kept)
            /\ WellSized(expr.arg) => bytesize(arg) = bytesize(expr.arg)

\* Subpiece{low_byte = 0, size = 4} of the 4-byte EAX became EAX itself.
C9_Witness ==
    /\ calls = 1
    /\ expr = Subpiece(0, 4, Var("EAX", 4, FALSE))
    /\ result = Var("EAX", 4, FALSE)

-----------------------------------------------------------------------------
(* Properties of the sub-register normalizer.                              *)

IsSubRegister(cat, name) == name \in DOMAIN cat /\ cat[name].base_register # name

IsBaseRegister(cat, name) == name \in DOMAIN cat /\ cat[name].base_register = name

\* Every base register named by the catalog is in it and is its own base.
BaseClosed(cat) ==
    \A n \in DOMAIN cat : IsBaseRegister(cat, cat[n].base_register)

\* The Var leaves of an expression.
RECURSIVE VarsOf(_)
VarsOf(e) ==
    CASE e.kind = "Var" -> {e}
      [] e.kind = "BinOp" -> VarsOf(e.lhs) \cup VarsOf(e.rhs)
      [] e.kind \in {"UnOp", "Cast", "Subpiece"} -> VarsOf(e.arg)
      [] OTHER -> {}

\* The raw term at index i writes a sub-register of the catalog.
WritesSubRegister(i) ==
    block[i].def = "Assign" /\ IsSubRegister(catalog, block[i].var.name)

\* C1: with a catalog in which every base register is its own base, no
\* sub-register name is left in a normalized term: its output variable (if any)
\* and every Var leaf of its expression, the ones the pass created included,
\* name a base register or a temporary.
C1_NoSubRegisterLeft ==
    BaseClosed(catalog) =>
        \A i \in DOMAIN done :
            /\ done[i].def = "Assign" =>
                   (IsBaseRegister(catalog, done[i].var.name) \/ done[i].var.is_temp)
            /\ \A v \in VarsOf(done[i].value) :
                   IsBaseRegister(catalog, v.name) \/ v.is_temp

\* A write to AH of an expression reading sub-registers, rebuilt as a Piece whose
\* leaves are the base-register reads the pass created.
C1_Witness ==
    /\ BaseClosed(catalog)
    /\ \E i \in DOMAIN done :
          /\ WritesSubRegister(i)
          /\ block[i].var.name = "AH"
          /\ \E v \in VarsOf(block[i].value) : IsSubRegister(catalog, v.name)
          /\ done[i].value.kind = "BinOp"
          /\ done[i].value.op = "Piece"
          /\ Cardinality(VarsOf(done[i].value)) >= 2

\* C2: executing the normalized block leaves every base register with the same
\* final value as executing the original block under sub-register semantics,
\* whatever the block and the initial register state, the zero-extension
\* branch included.
C2_MeaningPreserved ==
    (status = "finished" /\ catalog = X86Catalog) =>
        \A b \in {"EAX", "EBX"} :
            ExecBlock(done, regs0, catalog)[b] = ExecBlock(block, regs0, catalog)[b]

\* C5: when the output names a sub-register and the value expression has the
\* sub-register's size, the normalized expression (Piece or Cast form) has the
\* base register's declared size, and so has the rewritten output variable.
C5_BaseWidth ==
    \A i \in DOMAIN done :
        (/\ WritesSubRegister(i)
         /\ bytesize(block[i].value) = catalog[block[i].var.name].size)
        => LET base_size == catalog[catalog[block[i].var.name].base_register].size
           IN  /\ bytesize(done[i].value) = base_size
               /\ done[i].var.size = base_size

\* A 1-byte write to AH (lsb 1) rebuilt in the three-segment form, 4 bytes wide.
C5_Witness ==
    /\ catalog = X86Catalog
    /\ \E i \in DOMAIN done :
          /\ WritesSubRegister(i)
          /\ block[i].var.name = "AH"
          /\ bytesize(block[i].value) = 1
          /\ done[i].value.kind = "BinOp"
          /\ done[i].value.lhs.kind = "BinOp"
          /\ done[i].var = Variable("EAX", 4, FALSE)

\* The shapes of the specification for a sub-register write.
TwoSegmentForm(base, size, new_value) ==
    BinOp("Piece", Subpiece(size, base.size - size, base), new_value)

ThreeSegmentForm(base, lsb, size, new_value) ==
    BinOp("Piece",
          BinOp("Piece", Subpiece(lsb + size, base.size - (lsb + size), base), new_value),
          Subpiece(0, lsb, base))

\* C6: for a sub-register output with no pending zero-extension the result is
\* Piece(Subpiece(base, size, base_size - size), new_value) when lsb = 0 and
\* Piece(Piece(Subpiece(base, lsb + size, base_size - (lsb + size)), new_value),
\* Subpiece(base, 0, lsb)) when lsb > 0, new_value being the leaf-rewritten
\* original expression and base the Var of the base register with its size.
C6_PieceShape ==
    \A i \in DOMAIN done :
        (WritesSubRegister(i) /\ ~trace[i].peek_is_zero_extension) =>
            LET sub == catalog[block[i].var.name]
                base == Var(sub.base_register, catalog[sub.base_register].size, FALSE)
                new_value == check_for_sub_register(block[i].value, catalog)
            IN  done[i].value =
                    IF sub.lsb = 0
                    THEN TwoSegmentForm(base, sub.size, new_value)
                    ELSE ThreeSegmentForm(base, sub.lsb, sub.size, new_value)

\* Both shapes in one block: a write to AL followed by a write to AH.
C6_Witness ==
    /\ catalog = X86Catalog
    /\ status = "finished"
    /\ Len(done) = 2
    /\ block[1].def = "Assign" /\ block[1].var.name = "AL"
    /\ block[2].def = "Assign" /\ block[2].var.name = "AH"
    /\ done[1].value.lhs.kind = "Subpiece"
    /\ done[2].value.lhs.kind = "BinOp"

\* The raw term at index i + 1 is a zero-extending read of the sub-register the
\* term at index i writes, into the base register of that sub-register.
FollowedByZeroExtension(i) ==
    /\ WritesSubRegister(i)
    /\ i < Len(block)
    /\ block[i + 1].def = "Assign"
    /\ block[i + 1].var.name = catalog[block[i].var.name].base_register
    /\ block[i + 1].value.kind = "Cast"
    /\ block[i + 1].value.op = "IntZExt"
    /\ block[i + 1].value.arg.kind = "Var"
    /\ block[i + 1].value.arg.name = block[i].var.name

\* C7: when a term writes a sub-register and the next term of the block is a
\* zero-extending read of it into its base register, the normalized expression
\* of the first term is Cast{IntZExt, base register size, leaf-rewritten
\* original expression}: its root is never a Piece.
C7_ZeroExtensionElision ==
    \A i \in DOMAIN done :
        FollowedByZeroExtension(i) =>
            /\ done[i].value =
                   Cast("IntZExt", catalog[catalog[block[i].var.name].base_register].size,
                        check_for_sub_register(block[i].value, catalog))
            /\ ~(done[i].value.kind = "BinOp" /\ done[i].value.op = "Piece")

\* The second scenario: AL := Const(5) followed by EAX := ZExt(AL).
C7_Witness ==
    /\ catalog = X86Catalog
    /\ Len(block) = 2
    /\ block[1] = Assign(Variable("AL", 1, FALSE), Const(5, 8))
    /\ block[2] = Assign(Variable("EAX", 4, FALSE), Cast("IntZExt", 4, RegVar("AL")))
    /\ Len(done) >= 1
    /\ done[1] = Assign(Variable("EAX", 4, FALSE), Cast("IntZExt", 4, Const(5, 8)))

\* A name of the term is missing from the catalog: a non-temporary variable that
\* is no key of the catalog, or a sub-register whose base register is no key.
NameMissing(cat, name, is_temp) ==
    IF name \in DOMAIN cat THEN cat[name].base_register \notin DOMAIN cat ELSE ~is_temp

TermNameMissing(cat, t) ==
    \/ t.def = "Assign" /\ NameMissing(cat, t.var.name, t.var.is_temp)
    \/ \E v \in VarsOf(t.value) : NameMissing(cat, v.name, v.is_temp)

\* C10: a register name absent from the catalog makes the pass end in a reported
\* error outcome: the process never aborts, and no term naming an absent
\* register is rewritten.
C10_ReportedConfigurationError ==
    /\ status # "panic"
    /\ \A i \in DOMAIN done : ~TermNameMissing(catalog, block[i])

\* The raw term at index i + 1 is an assignment of Cast{IntZExt} of a bare Var
\* that names the register the term at index i defines.
LookaheadZeroExtendsOutput(i) ==
    /\ i < Len(block)
    /\ block[i + 1].def = "Assign"
    /\ block[i + 1].value.kind = "Cast"
    /\ block[i + 1].value.op = "IntZExt"
    /\ block[i + 1].value.arg.kind = "Var"
    /\ block[i + 1].value.arg.name = block[i].var.name

\* C11: "zero-extension pending" is marked for a term exactly when its output
\* names a sub-register, a lookahead term exists, that term is an assignment and
\* its expression is Cast{IntZExt} of a bare Var naming the register the current
\* term defines; a compound argument or a bare Var naming another register does
\* not mark it.
C11_ZeroExtensionMarkedExactly ==
    \A i \in DOMAIN trace :
        trace[i].peek_is_zero_extension <=>
            (WritesSubRegister(i) /\ LookaheadZeroExtendsOutput(i))

\* The operators that have a rule for identical operands.
EqualOperandOps ==
    {"BoolAnd", "BoolOr", "IntAnd", "IntOr", "BoolXOr", "IntXOr", "IntEqual",
     "IntLessEqual", "IntSLessEqual", "IntNotEqual", "IntLess", "IntSLess"}

\* The input is a BinOp with a rule for identical operands whose operands differ
\* and become structurally identical once each of them is simplified.
ChildrenBecomeIdentical ==
    /\ expr.kind = "BinOp"
    /\ expr.op \in EqualOperandOps
    /\ expr.lhs # expr.rhs
    /\ substitute_trivial_operations(expr.lhs) = substitute_trivial_operations(expr.rhs)

\* C12 as stated: one call does not cascade.  When simplifying the operands of a
\* BinOp makes them structurally identical, the first call leaves the parent
\* unreduced (operator kept over the two simplified operands) and only the
\* repeated call applies the rule for identical operands.
C12_NoCascade ==
    (calls >= 1 /\ ChildrenBecomeIdentical) =>
        LET lhs == substitute_trivial_operations(expr.lhs)
            rhs == substitute_trivial_operations(expr.rhs)
        IN  IF calls = 1
            THEN result = BinOp(expr.op, lhs, rhs)
            ELSE result = IdenticalOperandsRule(expr.op, lhs, rhs)

\* C12 amended: the pass is bottom-up; the operands are simplified first and the
\* comparison is made on the simplified operands, so a BinOp whose operands
\* become identical is reduced by the rule for identical operands in that same
\* call, and the repeated call leaves that result as it is.
C12_CascadesToParent ==
    (calls >= 1 /\ ChildrenBecomeIdentical) =>
        result = IdenticalOperandsRule(expr.op,
                                       substitute_trivial_operations(expr.lhs),
                                       substitute_trivial_operations(expr.rhs))

\* IntXOr(IntXOr(t1, t1), IntXOr(t2, t2)) is the 8-bit zero after one call.
C12_Witness ==
    /\ calls = 1
    /\ expr = BinOp("IntXOr",
                    BinOp("IntXOr", Var("t1", 1, TRUE), Var("t1", 1, TRUE)),
                    BinOp("IntXOr", Var("t2", 1, TRUE), Var("t2", 1, TRUE)))
    /\ result = Const(0, 8)

\* C14: substitute_trivial_operations is idempotent; applied to its own result
\* it returns that result unchanged.
C14_Idempotent ==
    calls >= 1 => substitute_trivial_operations(result) = result

\* A nested input whose first call rewrote both levels and whose second call
\* found nothing left to rewrite.
C14_Witness ==
    /\ calls = 2
    /\ expr = BinOp("IntXOr",
                    BinOp("IntAnd", Var("t1", 1, TRUE), Var("t1", 1, TRUE)),
                    Var("t1", 1, TRUE))
    /\ result = Const(0, 8)

\* The leaf rewriting as the specification words it: every Var leaf naming a
\* sub-register of cat becomes the extraction of that sub-register from its
\* base register; everything else stays.
RECURSIVE LeafRewritten(_, _)
LeafRewritten(e, cat) ==
    CASE e.kind = "Var" ->
            IF IsSubRegister(cat, e.name)
            THEN LET sub == cat[e.name]
                 IN  Subpiece(sub.lsb, sub.size,
                              Var(sub.base_register, cat[sub.base_register].size, FALSE))
            ELSE e
      [] e.kind = "BinOp" ->
            [e EXCEPT !.lhs = LeafRewritten(e.lhs, cat), !.rhs = LeafRewritten(e.rhs, cat)]
      [] e.kind \in {"UnOp", "Cast", "Subpiece"} ->
            [e EXCEPT !.arg = LeafRewritten(e.arg, cat)]
      [] OTHER -> e

\* The part of the normalized expression of term i that stands for the raw
\* expression: the argument of the zero-extension, the new-value segment of the
\* Piece form, or the whole expression when the output is no sub-register.
NewValueOf(i) ==
    IF trace[i].peek_is_zero_extension THEN done[i].value.arg
    ELSE IF trace[i].output_sub_register.some
         THEN IF trace[i].output_sub_register.value.lsb > 0
              THEN done[i].value.lhs.rhs
              ELSE done[i].value.rhs
         ELSE done[i].value

\* C13: in every normalized term, whatever its output is, the raw expression
\* appears with every Var leaf that names a sub-register, at any depth, replaced
\* by Subpiece{low_byte = lsb, size = sub-register size, arg = Var(base register
\* name, base register size, is_temp = FALSE)}, and with all other leaves and
\* all operators above the leaves as they were.
C13_LeafRewriting ==
    \A i \in DOMAIN done : NewValueOf(i) = LeafRewritten(block[i].value, catalog)

\* Two sub-register leaves (AL, lsb 0 and AH, lsb 1) two levels below the root
\* of an expression assigned to the base register.
C13_Witness ==
    /\ catalog = X86Catalog
    /\ \E i \in DOMAIN done :
          /\ block[i] = Assign(Variable("EAX", 4, FALSE),
                               Cast("IntZExt", 4,
                                    BinOp("IntAdd", RegVar("AL"), RegVar("AH"))))
          /\ done[i].value =
                 Cast("IntZExt", 4,
                      BinOp("IntAdd",
                            Subpiece(0, 1, Var("EAX", 4, FALSE)),
                            Subpiece(1, 1, Var("EAX", 4, FALSE))))

\* The catalogs C15 speaks of: every sub-register differs from its base
\* register, which is in the catalog, and lies within it.
SubRegistersWithinBase(cat) ==
    \A n \in DOMAIN cat :
        IsSubRegister(cat, n) =>
            /\ cat[n].base_register \in DOMAIN cat
            /\ cat[n].lsb + cat[n].size <= cat[cat[n].base_register].size

\* The Subpiece nodes of an expression whose argument is the Var of a base
\* register of cat: the extractions the normalizer builds.
RECURSIVE BaseSubpiecesOf(_, _)
BaseSubpiecesOf(e, cat) ==
    CASE e.kind = "Subpiece" ->
            IF e.arg.kind = "Var" /\ IsBaseRegister(cat, e.arg.name) /\ ~e.arg.is_temp
            THEN {e}
            ELSE BaseSubpiecesOf(e.arg, cat)
      [] e.kind = "BinOp" -> BaseSubpiecesOf(e.lhs, cat) \cup BaseSubpiecesOf(e.rhs, cat)
      [] e.kind \in {"UnOp", "Cast"} -> BaseSubpiecesOf(e.arg, cat)
      [] OTHER -> {}

\* C15: with a catalog whose sub-registers lie within their base registers
\* (lsb + size <= base size, register # base_register), every Subpiece the
\* normalizer builds is a proper extraction, size >= 1 and low_byte + size <=
\* size of its base-register argument, and no ByteSize subtraction underflows
\* (the pass does not panic).
C15_ProperExtractions ==
    SubRegistersWithinBase(catalog) =>
        /\ status # "panic"
        /\ \A i \in DOMAIN done :
              \A s \in BaseSubpiecesOf(done[i].value, catalog) :
                  /\ s.size >= 1
                  /\ s.low_byte + s.size <= s.arg.size

-----------------------------------------------------------------------------
(* SpecGhidra: get_project_from_ghidra.  The calling thread creates the    *)
(* named pipe and spawns a thread that runs analyzeHeadless to completion; *)
(* the calling thread opens the pipe for reading, parses the JSON that     *)
(* arrives, joins the spawned thread and converts the project.             *)

\* Number of pieces the JSON document is written in.
JsonChunks == 3

\* Number of written pieces the pipe holds before a write blocks.
PipeCapacity == 1

\* std::process::exit(101); a panic of the main thread ends the process with
\* the same code.
ExitCode == 101

Alive == exit_code = None

SimplifyAndNormalizeIdle ==
    /\ SimplifyIdle
    /\ NormalizeIdle

InitGhidra ==
    /\ main = "prepare"
    /\ ghidra_subprocess = "unspawned"
    /\ child = "none"
    /\ output_status = "none"
    /\ fifo = [writer |-> "unopened", written |-> 0, read |-> 0]
    /\ exit_code = None
    /\ SimplifyAndNormalizeIdle

OtherUnchanged ==
    UNCHANGED <<expr, env, result, calls, catalog, block, cursor, done, trace, status, regs0>>

\* The process ends with exit code 101: every thread stops where it is.
ProcessExits ==
    /\ exit_code' = Some(ExitCode)
    /\ UNCHANGED <<main, ghidra_subprocess, child, output_status, fifo>>
    /\ OtherUnchanged

\* get_ghidra_result up to the pipe's name: the paths are found.
PrepareOk ==
    /\ Alive /\ main = "prepare"
    /\ main' = "mkfifo"
    /\ UNCHANGED <<ghidra_subprocess, child, output_status, fifo, exit_code>>
    /\ OtherUnchanged

\* One of the expect() / unwrap() calls on the way panics in the main thread.
PreparePanics ==
    /\ Alive /\ main = "prepare"
    /\ ProcessExits

MkfifoOk ==
    /\ Alive /\ main = "mkfifo"
    /\ main' = "spawn"
    /\ UNCHANGED <<ghidra_subprocess, child, output_status, fifo, exit_code>>
    /\ OtherUnchanged

\* unistd::mkfifo returned Err: std::process::exit(101).
MkfifoFails ==
    /\ Alive /\ main = "mkfifo"
    /\ ProcessExits

\* thread::spawn; get_ghidra_result returns and the caller goes on to File::open.
SpawnThread ==
    /\ Alive /\ main = "spawn"
    /\ main' = "open"
    /\ ghidra_subprocess' = "output"
    /\ UNCHANGED <<child, output_status, fifo, exit_code>>
    /\ OtherUnchanged

\* File::open on the named pipe returns once a writer has opened it, and the
\* writer's open returns at that same moment.
OpenFifo ==
    /\ Alive /\ main = "open"
    /\ fifo.writer = "opening"
    /\ main' = "read"
    /\ fifo' = [fifo EXCEPT !.writer = "open"]
    /\ UNCHANGED <<ghidra_subprocess, child, output_status, exit_code>>
    /\ OtherUnchanged

\* serde_json::from_reader consumes what has been written.
ReadChunk ==
    /\ Alive /\ main = "read"
    /\ fifo.read < fifo.written
    /\ fifo' = [fifo EXCEPT !.read = fifo.read + 1]
    /\ UNCHANGED <<main, ghidra_subprocess, child, output_status, exit_code>>
    /\ OtherUnchanged

\* End of file after the whole document: from_reader returns Ok.
ParseOk ==
    /\ Alive /\ main = "read"
    /\ fifo.writer = "closed" /\ fifo.read = fifo.written
    /\ fifo.read = JsonChunks
    /\ main' = "join"
    /\ UNCHANGED <<ghidra_subprocess, child, output_status, fifo, exit_code>>
    /\ OtherUnchanged

\* End of file inside the document: from_reader returns Err and unwrap() panics.
ParsePanics ==
    /\ Alive /\ main = "read"
    /\ fifo.writer = "closed" /\ fifo.read = fifo.written
    /\ fifo.read < JsonChunks
    /\ ProcessExits

\* subprocess.join() returns Ok once the spawned thread has ended.
Join ==
    /\ Alive /\ main = "join"
    /\ ghidra_subprocess = "finished"
    /\ main' = "convert"
    /\ UNCHANGED <<ghidra_subprocess, child, output_status, fifo, exit_code>>
    /\ OtherUnchanged

\* subprocess.join() returns Err for a thread that panicked; expect() panics.
JoinPanics ==
    /\ Alive /\ main = "join"
    /\ ghidra_subprocess = "panicked"
    /\ ProcessExits

\* get_ir_project: the Project is returned.
Convert ==
    /\ Alive /\ main = "convert"
    /\ main' = "returned"
    /\ UNCHANGED <<ghidra_subprocess, child, output_status, fifo, exit_code>>
    /\ OtherUnchanged

MainThread ==
    \/ PrepareOk \/ PreparePanics \/ MkfifoOk \/ MkfifoFails \/ SpawnThread
    \/ OpenFifo \/ ReadChunk \/ ParseOk \/ ParsePanics \/ Join \/ JoinPanics \/ Convert

\* Command::output() returned Err, Ghidra could not be executed: exit(101).
CommandFails ==
    /\ Alive /\ ghidra_subprocess = "output" /\ child = "none"
    /\ ProcessExits

\* Command::output() started analyzeHeadless and waits for it to end.
CommandStarts ==
    /\ Alive /\ ghidra_subprocess = "output" /\ child = "none"
    /\ child' = "running"
    /\ UNCHANGED <<main, ghidra_subprocess, output_status, fifo, exit_code>>
    /\ OtherUnchanged

\* Command::output() returns Ok(output) when analyzeHeadless has ended.
OutputReturns ==
    /\ Alive /\ ghidra_subprocess = "output" /\ child = "exited"
    /\ ghidra_subprocess' = "status"
    /\ UNCHANGED <<main, child, output_status, fifo, exit_code>>
    /\ OtherUnchanged

\* output.status.success(): the closure ends and with it the thread.
StatusSuccess ==
    /\ Alive /\ ghidra_subprocess = "status" /\ output_status = "success"
    /\ ghidra_subprocess' = "finished"
    /\ UNCHANGED <<main, child, output_status, fifo, exit_code>>
    /\ OtherUnchanged

\* A non-zero exit code, or no code (terminated by a signal): exit(101).
StatusFailure ==
    /\ Alive /\ ghidra_subprocess = "status" /\ output_status \in {"code", "killed"}
    /\ ProcessExits

\* String::from_utf8(output.stdout).unwrap() panics on output that is not
\* UTF-8: the thread ends by a panic before it reaches exit(101).
StatusPanics ==
    /\ Alive /\ ghidra_subprocess = "status" /\ output_status = "code"
    /\ ghidra_subprocess' = "panicked"
    /\ UNCHANGED <<main, child, output_status, fifo, exit_code>>
    /\ OtherUnchanged

GhidraThread ==
    \/ CommandFails \/ CommandStarts \/ OutputReturns
    \/ StatusSuccess \/ StatusFailure \/ StatusPanics

\* The post-script of analyzeHeadless opens the pipe it was given for writing;
\* the open waits for the reader.
ChildOpensFifo ==
    /\ Alive /\ child = "running" /\ fifo.writer = "unopened"
    /\ fifo' = [fifo EXCEPT !.writer = "opening"]
    /\ UNCHANGED <<main, ghidra_subprocess, child, output_status, exit_code>>
    /\ OtherUnchanged

\* It writes the next piece of the document, when the pipe has room for it.
ChildWrites ==
    /\ Alive /\ child = "running" /\ fifo.writer = "open"
    /\ fifo.written < JsonChunks
    /\ fifo.written - fifo.read < PipeCapacity
    /\ fifo' = [fifo EXCEPT !.written = fifo.written + 1]
    /\ UNCHANGED <<main, ghidra_subprocess, child, output_status, exit_code>>
    /\ OtherUnchanged

\* It closes the pipe, after any number of pieces.
ChildCloses ==
    /\ Alive /\ child = "running" /\ fifo.writer = "open"
    /\ fifo' = [fifo EXCEPT !.writer = "closed"]
    /\ UNCHANGED <<main, ghidra_subprocess, child, output_status, exit_code>>
    /\ OtherUnchanged

\* analyzeHeadless ends, at any point: successfully, with a non-zero code or
\* terminated by a signal.  Its end of the pipe is closed with it.
ChildExits ==
    /\ Alive /\ child = "running"
    /\ \E s \in {"success", "code", "killed"} : output_status' = s
    /\ child' = "exited"
    /\ fifo' = [fifo EXCEPT !.writer = CASE fifo.writer = "open" -> "closed"
                                          [] fifo.writer = "opening" -> "unopened"
                                          [] OTHER -> fifo.writer]
    /\ UNCHANGED <<main, ghidra_subprocess, exit_code>>
    /\ OtherUnchanged

GhidraProcess == ChildOpensFifo \/ ChildWrites \/ ChildCloses \/ ChildExits

NextGhidra == MainThread \/ GhidraThread \/ GhidraProcess

\* Threads that can take a step are scheduled, and analyzeHeadless goes on
\* until it ends.
SpecGhidra ==
    /\ InitGhidra
    /\ [][NextGhidra]_vars
    /\ WF_vars(MainThread)
    /\ WF_vars(GhidraThread)
    /\ WF_vars(GhidraProcess)

Returned == main = "returned"

Exited == exit_code = Some(ExitCode)

\* C16: get_project_from_ghidra never blocks forever.  Whatever analyzeHeadless
\* does, the call is never left in a state from which no thread can take a step
\* unless it has returned the Project or the process has ended with exit code
\* 101; and the Project is returned only with the whole document read and the
\* spawned thread joined after that.
C16_NeverBlocksForever ==
    /\ Returned \/ Exited \/ ENABLED NextGhidra
    /\ main \in {"convert", "returned"} =>
           (fifo.read = JsonChunks /\ ghidra_subprocess = "finished")

====
